---- MODULE Spec2Model ----
(***************************************************************************)
(* Model of the longevity-hack web client: the ResultsPage (category       *)
(* expansion, paginated SNP loading, client-side ordering, notification    *)
(* subscriptions), the risk-level helpers of util, the API resource        *)
(* parsing, the HomePage with the in-memory store of pending uploads, and  *)
(* the UploadPage (mount effect, polling, step transitions).               *)
(* The Python backend is not part of the sources; the parts of it that the *)
(* client depends on (precomputed order, classification) follow spec.md.   *)
(***************************************************************************)
EXTENDS Integers, Sequences, FiniteSets, TLC

(***************************************************************************)
(* Bounds of the model                                                     *)
(***************************************************************************)
\* size of the largest category the server holds (three pages of 20)
MaxTotal == 41
\* how many consecutive variants of the server order share one sort key
MaxSpread == 4
\* number of listCategorySnps requests a run of the ResultsPage may issue
MaxRequests == 4
\* number of status polls / overview fetches of the UploadPage in flight
MaxPolls == 2
\* number of clicks on Continue on the HomePage
MaxClicks == 2
\* number of calls of toggleCategorySubscription
MaxToggles == 4

(***************************************************************************)
(* State                                                                   *)
(***************************************************************************)
\* ResultsPage and the backend it talks to
VARIABLES
  variant,            \* which ResultsPage: "autoload" or "preview"
  server,             \* category -> precomputed order held by the backend
  overview,           \* [loaded, categoryGroups]
  overviewRequest,    \* "pending", "done" or "failed"
  expandedGroups,     \* set of expanded category ids
  categorySnpsData,   \* category -> CategorySnpsData or NoData
  inflight,           \* listCategorySnps requests awaiting their response
  view,               \* the state captured by the last render (closures)
  effectDue,          \* the auto-load effect of the last render has not run
  issued,             \* number of listCategorySnps requests issued so far
  autoRequests        \* category -> requests issued by the auto-load effect

\* ResultsPage: notification subscriptions and their copy in localStorage
VARIABLES
  subscribedCategories,      \* the Set, as the sequence of its insertion order
  showSubscriptionPopup,
  notificationSubscriptions, \* the localStorage item of that name
  storedAtMount,             \* the item as it was when the page was mounted
  subsMounted,               \* the mount effects have run
  subsRendered,              \* subscribedCategories of the last render
  subsRenderDue,             \* a state update has not been rendered yet
  subsSaveDue,               \* the save effect of the last render has not run
  toggles                    \* calls of toggleCategorySubscription so far

subsVars == <<subscribedCategories, showSubscriptionPopup, notificationSubscriptions,
              storedAtMount, subsMounted, subsRendered, subsRenderDue, subsSaveDue,
              toggles>>

resultsVars == <<variant, server, overview, overviewRequest, expandedGroups,
                 categorySnpsData, inflight, view, effectDue, issued, autoRequests,
                 subsVars>>

\* applications of the pure helpers
VARIABLES
  probe               \* the last application: its inputs and its results

\* UploadPage
VARIABLES
  genomeAnalysis,         \* status of the last fetched analysis, or NullStr
  genomeAnalysisResults,  \* [present, results]
  displayedStatus,        \* the step on screen
  intervalActive,         \* the 2 s polling interval is set
  polls,                  \* getGenomeAnalysis polls in flight
  overviewFetches,        \* getGenomeAnalysisOverview requests in flight
  mountFetch,             \* getGenomeAnalysis of the mount effect
  stepTimer,              \* the timeout of the step transition effect
  stepEffectDue,          \* the step transition effect has to re-run
  completedPolled,        \* some poll has returned 'completed'
  overviewFailed          \* some overview request of a poll has rejected

\* UploadPage: the mount effect, and the in-memory store of fileUploadStore
VARIABLES
  genomeAnalysisId,       \* the id of the URL the page was mounted with
  pendingUploads,         \* analysis id -> file, or NoFile
  uploadRequest,          \* "none", "pending", "done" or "failed"
  uploadCalls,            \* invocations of uploadGenomeFile
  errorMessage,           \* the message of the UploadPage, or NullStr
  mountStatus             \* the status the fetch of the mount effect returned

mountVars == <<genomeAnalysisId, pendingUploads, uploadRequest, uploadCalls,
               errorMessage, mountStatus>>

\* HomePage
VARIABLES
  screen,                 \* the page on screen: "home" or "upload"
  hasCheckedConsent,
  selectedFile,           \* the selected file, or NoFile
  homeError,              \* the message of the HomePage, or NullStr
  creates,                \* createGenomeAnalysis requests awaiting their response
  created,                \* number of analyses the backend has created
  clicks,                 \* clicks on Continue so far
  navigations,            \* the ids navigateTo('/upload?id=..') was called with
  stored                  \* analysis id -> the file HomePage stored for it

homeVars == <<screen, hasCheckedConsent, selectedFile, homeError, creates, created,
              clicks, navigations, stored>>

uploadVars == <<genomeAnalysis, genomeAnalysisResults, displayedStatus, intervalActive,
                polls, overviewFetches, mountFetch, stepTimer, stepEffectDue,
                completedPolled, overviewFailed, mountVars, homeVars>>

\* what a HomePage step leaves alone of the UploadPage
pollVars == <<genomeAnalysis, genomeAnalysisResults, displayedStatus, polls,
              overviewFetches, stepTimer, stepEffectDue, completedPolled, overviewFailed>>
uploadCallVars == <<uploadRequest, uploadCalls, errorMessage, mountStatus>>

vars == <<resultsVars, probe, uploadVars>>

(***************************************************************************)
(* Values                                                                  *)
(***************************************************************************)
\* JavaScript null / undefined of a string-valued field
NullStr == "<null>"
\* JavaScript null / undefined of a number-valued field (scores are >= 0)
NoNumber == -1

Min(a, b) == IF a < b THEN a ELSE b

\* spec.md 4.5: the six risk levels, highest first
RiskLevels == <<"very_high", "high", "moderate", "slight", "lower", "unknown">>
NamedLevels == {"very_high", "high", "moderate", "slight", "lower"}
\* riskLevel values a response or a caller may carry
RiskInputs == NamedLevels \cup {"unknown", NullStr, "", "elevated", "HIGH"}
ScoreInputs == {NoNumber, 0, 3, 7}

(***************************************************************************)
(* util: getRiskBucket, getRiskPriority                                    *)
(***************************************************************************)
getRiskBucketDefaultsLower(riskLevel) ==
  CASE riskLevel = "very_high" -> "Very High Risk"
    [] riskLevel = "high" -> "High Risk"
    [] riskLevel = "moderate" -> "Moderately Higher Risk"
    [] riskLevel = "slight" -> "Slightly Higher Risk"
    [] OTHER -> "Lower Risk"

getRiskBucket(riskLevel) ==
  CASE riskLevel = "very_high" -> "Very High Risk"
    [] riskLevel = "high" -> "High Risk"
    [] riskLevel = "moderate" -> "Moderately Higher Risk"
    [] riskLevel = "slight" -> "Slightly Higher Risk"
    [] riskLevel = "lower" -> "Lower Risk"
    [] OTHER -> "Unknown Risk"

getRiskPrioritySwapped(riskLevel) ==
  CASE riskLevel = "very_high" -> 100
    [] riskLevel = "high" -> 90
    [] riskLevel = "moderate" -> 55
    [] riskLevel = "slight" -> 75
    [] riskLevel = "lower" -> 1
    [] OTHER -> 0

getRiskPriority(riskLevel) ==
  CASE riskLevel = "very_high" -> 100
    [] riskLevel = "high" -> 90
    [] riskLevel = "moderate" -> 75
    [] riskLevel = "slight" -> 55
    [] riskLevel = "lower" -> 1
    [] OTHER -> 0

(***************************************************************************)
(* resources: SNP.fromObject (the fields the pages use)                    *)
(***************************************************************************)
\* JavaScript truthiness of a raw string / number field
TruthyStr(s) == s # NullStr /\ s # ""
TruthyNum(n) == n # NoNumber /\ n # 0

SNPfromObjectTruthyAllele(obj) ==
  [rsid |-> obj.rsid,
   importanceScore |-> IF TruthyNum(obj.importanceScore) THEN obj.importanceScore ELSE NoNumber,
   userHasRiskAllele |-> IF obj.userHasRiskAllele = "true" THEN "true" ELSE NullStr,
   riskLevel |-> IF TruthyStr(obj.riskLevel) THEN obj.riskLevel ELSE NullStr]

SNPfromObject(obj) ==
  [rsid |-> obj.rsid,
   importanceScore |-> IF TruthyNum(obj.importanceScore) THEN obj.importanceScore ELSE NoNumber,
   userHasRiskAllele |-> IF obj.userHasRiskAllele # NullStr THEN obj.userHasRiskAllele ELSE NullStr,
   riskLevel |-> IF TruthyStr(obj.riskLevel) THEN obj.riskLevel ELSE NullStr]

\* obj.field ? Number(obj.field) : null
NumberOrNull(n) == IF TruthyNum(n) THEN n ELSE NoNumber

\* the number-valued optional fields of SNP.fromObject
SNPNumbersfromObject(obj) ==
  [importanceScore |-> NumberOrNull(obj.importanceScore),
   clinvarSignificance |-> NumberOrNull(obj.clinvarSignificance),
   oddsRatio |-> NumberOrNull(obj.oddsRatio),
   riskAlleleFrequency |-> NumberOrNull(obj.riskAlleleFrequency)]

GenomeAnalysisSummaryfromObject(obj) ==
  [totalSnps |-> NumberOrNull(obj.totalSnps),
   matchedSnps |-> NumberOrNull(obj.matchedSnps),
   totalAssociations |-> NumberOrNull(obj.totalAssociations),
   clinvarCount |-> NumberOrNull(obj.clinvarCount)]

MapSNPs(raw) == [i \in 1..Len(raw) |-> SNPfromObject(raw[i])]

(***************************************************************************)
(* ResultsPage: sortSnps                                                   *)
(***************************************************************************)
\* a.importanceScore ?? 0
ScoreOrZero(s) == IF s = NoNumber THEN 0 ELSE s

\* the comparator handed to Array.prototype.sort
compareSnpsPriorityOnly(a, b) ==
  getRiskPriority(b.riskLevel) - getRiskPriority(a.riskLevel)

compareSnps(a, b) ==
  LET priorityA == getRiskPriority(a.riskLevel)
      priorityB == getRiskPriority(b.riskLevel)
  IN IF priorityB # priorityA
       THEN priorityB - priorityA
       ELSE ScoreOrZero(b.importanceScore) - ScoreOrZero(a.importanceScore)

\* Array.prototype.sort is stable: x goes behind every element that does
\* not compare greater than it
InsertSorted(s, x) ==
  LET k == Cardinality({i \in 1..Len(s) : compareSnps(s[i], x) <= 0})
  IN SubSeq(s, 1, k) \o <<x>> \o SubSeq(s, k + 1, Len(s))

RECURSIVE StableSort(_)
StableSort(s) ==
  IF s = <<>> THEN <<>>
  ELSE InsertSorted(StableSort(SubSeq(s, 1, Len(s) - 1)), s[Len(s)])

sortSnpsNoSort(snps) == snps

sortSnps(snps) == StableSort(snps)


(***************************************************************************)
(* Backend, as spec.md describes it (its code is not among the sources)    *)
(***************************************************************************)
Categories == {"c1", "c2"}
\* listCategorySnps(genomeAnalysisId, genomeAnalysisResultId, offset, 20)
PageLimit == 20
\* the overview carries the top 5 of every category
TopCount == 5

\* sort keys in the order of spec.md 4.6: risk level, then importanceScore
DescKeys ==
  << [riskLevel |-> "very_high", importanceScore |-> 7],
     [riskLevel |-> "very_high", importanceScore |-> 3],
     [riskLevel |-> "high", importanceScore |-> 7],
     [riskLevel |-> "moderate", importanceScore |-> 3],
     [riskLevel |-> "moderate", importanceScore |-> 0],
     [riskLevel |-> "slight", importanceScore |-> 7],
     [riskLevel |-> "lower", importanceScore |-> 3],
     [riskLevel |-> "lower", importanceScore |-> NoNumber],
     [riskLevel |-> "unknown", importanceScore |-> 3],
     [riskLevel |-> "unknown", importanceScore |-> NoNumber] >>

\* the precomputed order of one category: total variants, the first one
\* carrying key number first, every spread consecutive variants one key
PrecomputedOrder(total, first, spread) ==
  [i \in 1..total |->
     LET key == DescKeys[Min(first + ((i - 1) \div spread), Len(DescKeys))]
     IN [rsid |-> i,
         riskLevel |-> key.riskLevel,
         importanceScore |-> key.importanceScore,
         userHasRiskAllele |-> IF key.riskLevel = "lower" THEN "false" ELSE "true"]]

\* GET .../results/{categoryId}/snps?offset=&limit= : a slice of the order
ListCategorySnpsResponse(order, offset, limit) ==
  [totalCount |-> Len(order),
   snps |-> MapSNPs(SubSeq(order, offset + 1, Min(offset + limit, Len(order))))]

\* highest risk level present in a category, as a priority (none: below all)
HighestRisk(order) ==
  IF order = <<>> THEN 0 - 1 ELSE getRiskPriority(order[1].riskLevel)

\* spec.md 4.6: categories by highest risk level, then by variant count
CategoryBefore(oa, ob) ==
  \/ HighestRisk(oa) > HighestRisk(ob)
  \/ HighestRisk(oa) = HighestRisk(ob) /\ Len(oa) >= Len(ob)

OrderCategories(srv) ==
  IF CategoryBefore(srv["c1"], srv["c2"]) THEN <<"c1", "c2">> ELSE <<"c2", "c1">>

\* GET .../overview : the category groups in display order
OverviewResponse(srv) ==
  LET ids == OrderCategories(srv)
  IN [i \in 1..Len(ids) |->
        [genomeAnalysisResultId |-> ids[i],
         totalCount |-> Len(srv[ids[i]]),
         topSnps |-> MapSNPs(SubSeq(srv[ids[i]], 1, Min(TopCount, Len(srv[ids[i]]))))]]

(***************************************************************************)
(* ResultsPage: notification subscriptions.  A JavaScript Set keeps its    *)
(* insertion order, so subscribedCategories is a duplicate-free sequence.  *)
(* The subscription state shares nothing with the category data, so its    *)
(* steps are explored on their own.                                        *)
(***************************************************************************)
\* the text of a localStorage item: absent, a JSON array, or not JSON
NoItem == [kind |-> "absent", items |-> <<>>]
InvalidItem == [kind |-> "invalid", items |-> <<>>]

\* JSON.stringify(array) / JSON.parse(text)
JSONstringify(array) == [kind |-> "array", items |-> array]
JSONparse(text) == [ok |-> text.kind = "array", value |-> text.items]

\* new Set(array): the first occurrence of every element, in order
NewSet(array) ==
  LET first == {i \in 1..Len(array) : \A j \in 1..(i - 1) : array[j] # array[i]}
      pos(k) == CHOOSE i \in first : Cardinality({j \in first : j <= i}) = k
  IN [k \in 1..Cardinality(first) |-> array[pos(k)]]

\* Array.from(set)
ArrayFrom(set) == set

SetHas(set, x) == \E i \in 1..Len(set) : set[i] = x
SetDelete(set, x) == SelectSeq(set, LAMBDA y : y # x)
SetAdd(set, x) == IF SetHas(set, x) THEN set ELSE Append(set, x)

\* the load effect: [set, updated]; getItem(..) is truthy unless absent
loadSubscriptionsNever(item, current) == [set |-> current, updated |-> FALSE]

loadSubscriptions(item, current) ==
  IF item.kind # "absent" /\ JSONparse(item).ok
    THEN [set |-> NewSet(JSONparse(item).value), updated |-> TRUE]
    ELSE [set |-> current, updated |-> FALSE]

\* the updater of toggleCategorySubscription: [set, popup]
toggleCategorySubscriptionNoLimit(prev, categoryId) ==
  IF SetHas(prev, categoryId)
    THEN [set |-> SetDelete(prev, categoryId), popup |-> FALSE]
    ELSE [set |-> SetAdd(prev, categoryId), popup |-> FALSE]

toggleCategorySubscription(prev, categoryId) ==
  IF SetHas(prev, categoryId)
    THEN [set |-> SetDelete(prev, categoryId), popup |-> FALSE]
    ELSE IF Len(prev) >= 1
      THEN [set |-> prev, popup |-> TRUE]
      ELSE [set |-> SetAdd(prev, categoryId), popup |-> FALSE]

\* the effects of the first render run: the load effect, then the save
\* effect with the subscribedCategories of that render
SubsMountEffects ==
  /\ ~subsMounted
  /\ subsMounted' = TRUE
  /\ LET loaded == loadSubscriptions(notificationSubscriptions, subscribedCategories)
     IN /\ subscribedCategories' = loaded.set
        /\ subsRenderDue' = loaded.updated
  /\ notificationSubscriptions' = JSONstringify(ArrayFrom(subsRendered))
  /\ subsSaveDue' = FALSE
  /\ UNCHANGED <<showSubscriptionPopup, storedAtMount, subsRendered, toggles,
                 variant, server, overview, overviewRequest, expandedGroups,
                 categorySnpsData, inflight, view, effectDue, issued, autoRequests,
                 probe, uploadVars>>

\* the update of the load effect is rendered: a new Set, so the save
\* effect is due again
SubsRender ==
  /\ subsRenderDue
  /\ subsRendered' = subscribedCategories
  /\ subsRenderDue' = FALSE
  /\ subsSaveDue' = TRUE
  /\ UNCHANGED <<subscribedCategories, showSubscriptionPopup, notificationSubscriptions,
                 storedAtMount, subsMounted, toggles,
                 variant, server, overview, overviewRequest, expandedGroups,
                 categorySnpsData, inflight, view, effectDue, issued, autoRequests,
                 probe, uploadVars>>

\* the save effect of the last render runs
SubsSaveEffect ==
  /\ subsSaveDue
  /\ notificationSubscriptions' = JSONstringify(ArrayFrom(subsRendered))
  /\ subsSaveDue' = FALSE
  /\ UNCHANGED <<subscribedCategories, showSubscriptionPopup, storedAtMount, subsMounted,
                 subsRendered, subsRenderDue, toggles,
                 variant, server, overview, overviewRequest, expandedGroups,
                 categorySnpsData, inflight, view, effectDue, issued, autoRequests,
                 probe, uploadVars>>

\* the user clicks the bell of a category: pending effects run first, the
\* update is rendered and, if the Set is a new one, saved within the click
ToggleSubscription(categoryId) ==
  /\ subsMounted
  /\ toggles < MaxToggles
  /\ toggles' = toggles + 1
  /\ LET flushed == IF subsSaveDue THEN JSONstringify(ArrayFrom(subsRendered))
                    ELSE notificationSubscriptions
         result == toggleCategorySubscription(subscribedCategories, categoryId)
         isNewSet == result.set # subscribedCategories \/ subsRenderDue
     IN /\ subscribedCategories' = result.set
        /\ showSubscriptionPopup' = (showSubscriptionPopup \/ result.popup)
        /\ subsRendered' = result.set
        /\ notificationSubscriptions' =
             IF isNewSet THEN JSONstringify(ArrayFrom(result.set)) ELSE flushed
  /\ subsRenderDue' = FALSE
  /\ subsSaveDue' = FALSE
  /\ UNCHANGED <<storedAtMount, subsMounted,
                 variant, server, overview, overviewRequest, expandedGroups,
                 categorySnpsData, inflight, view, effectDue, issued, autoRequests,
                 probe, uploadVars>>

\* the popup is closed
CloseSubscriptionPopup ==
  /\ showSubscriptionPopup
  /\ showSubscriptionPopup' = FALSE
  /\ UNCHANGED <<subscribedCategories, notificationSubscriptions, storedAtMount,
                 subsMounted, subsRendered, subsRenderDue, subsSaveDue, toggles,
                 variant, server, overview, overviewRequest, expandedGroups,
                 categorySnpsData, inflight, view, effectDue, issued, autoRequests,
                 probe, uploadVars>>

\* what localStorage may hold when the page is mounted
StoredChoices ==
  {NoItem, InvalidItem} \cup
  {JSONstringify(a) : a \in {<<>>, <<"c1">>, <<"c2">>, <<"c1", "c2">>, <<"c2", "c1">>}}

\* the first render of the page over the given localStorage item
SubsInit(item) ==
  /\ subscribedCategories = <<>>
  /\ showSubscriptionPopup = FALSE
  /\ notificationSubscriptions = item
  /\ storedAtMount = item
  /\ subsMounted = FALSE
  /\ subsRendered = <<>>
  /\ subsRenderDue = FALSE
  /\ subsSaveDue = FALSE
  /\ toggles = 0

SubsNext ==
  \/ SubsMountEffects
  \/ SubsRender
  \/ SubsSaveEffect
  \/ \E g \in Categories : ToggleSubscription(g)
  \/ CloseSubscriptionPopup

(***************************************************************************)
(* ResultsPage state                                                       *)
(***************************************************************************)

NoData == [present |-> FALSE, snps |-> <<>>, totalCount |-> 0,
           hasMore |-> FALSE, isLoading |-> FALSE]
NoOverview == [loaded |-> FALSE, categoryGroups |-> <<>>]

\* sizes of the two categories: c1 spans two or three pages, c2 at most one
TotalChoices(groupId) ==
  IF groupId = "c1" THEN {PageLimit + 1, MaxTotal} ELSE {0, 3}
\* the sort key of the first variant of a category
FirstKeyChoices(groupId) ==
  IF groupId = "c1" THEN {1, 3} ELSE {1}

\* the group of the overview with the given id
GroupOf(ov, groupId) ==
  LET i == CHOOSE j \in 1..Len(ov.categoryGroups) :
             ov.categoryGroups[j].genomeAnalysisResultId = groupId
  IN ov.categoryGroups[i]

(***************************************************************************)
(* ResultsPage operations.  A handler or effect reads categorySnpsData     *)
(* from the render that created it (closure) and writes through functional *)
(* updates on the current state.  A click is a discrete event: React       *)
(* commits its updates, and runs the effects of that commit, before the    *)
(* next event.  Updates made by an effect or by a request's continuation   *)
(* are rendered in a later task.  genomeAnalysisId is set by the mount     *)
(* effect before the overview can arrive, so wherever a group is on screen *)
(* the first early return of loadMore is not taken.                        *)
(***************************************************************************)
\* the part of the state that belongs to one category
Cat(groupId) == [data |-> categorySnpsData[groupId], reqs |-> inflight[groupId],
                 autos |-> autoRequests[groupId]]

Snapshot(data, expanded, ov) == [data |-> data, expanded |-> expanded, overview |-> ov]

\* loadMore up to its await, closure being the categorySnpsData entry that
\* the calling render captured for the category
loadMore(cat, currentData) ==
  IF ~currentData.present THEN cat
  ELSE IF currentData.isLoading THEN cat
  ELSE [cat EXCEPT !.data = IF cat.data.present
                              THEN [cat.data EXCEPT !.isLoading = TRUE] ELSE cat.data,
                   !.reqs = Append(cat.reqs, [offset |-> Len(currentData.snps)])]

\* the auto-load effect of a render, for one category
AutoLoad(cat, closure, groupId) ==
  LET data == closure.data[groupId]
  IN IF /\ variant = "autoload"
        /\ groupId \in closure.expanded
        /\ data.present /\ Len(data.snps) = 0 /\ ~data.isLoading /\ data.hasMore
       THEN [loadMore(cat, data) EXCEPT !.autos = @ + 1]
       ELSE cat

\* the entry toggleGroup creates on the first expansion of a group
InitialData(group) ==
  IF variant = "preview"
    THEN [present |-> TRUE, snps |-> sortSnps(group.topSnps),
          totalCount |-> group.totalCount,
          hasMore |-> group.totalCount > TopCount, isLoading |-> FALSE]
    ELSE [present |-> TRUE, snps |-> <<>>,
          totalCount |-> group.totalCount,
          hasMore |-> group.totalCount > 0, isLoading |-> FALSE]

\* toggleGroup: the updater of setExpandedGroups and the nested update
toggleGroup(cat, closure, groupId, wasExpanded) ==
  IF ~wasExpanded /\ ~closure.data[groupId].present
    THEN [cat EXCEPT !.data = InitialData(GroupOf(closure.overview, groupId))]
    ELSE cat

\* the continuation of loadMore after a page arrived
pageLoaded(cat, page) ==
  IF cat.data.present
    THEN LET allSnps == sortSnps(cat.data.snps \o page.snps)
         IN [cat EXCEPT !.data = [present |-> TRUE, snps |-> allSnps,
                                  totalCount |-> page.totalCount,
                                  hasMore |-> Len(allSnps) < page.totalCount,
                                  isLoading |-> FALSE]]
    ELSE cat

pageFailedDropsSnps(cat) ==
  IF cat.data.present
    THEN [cat EXCEPT !.data.isLoading = FALSE, !.data.snps = <<>>] ELSE cat

\* the catch branch of loadMore
pageFailed(cat) ==
  IF cat.data.present THEN [cat EXCEPT !.data.isLoading = FALSE] ELSE cat

RemoveAt(s, i) == SubSeq(s, 1, i - 1) \o SubSeq(s, i + 1, Len(s))

\* counts the requests that a step adds to those in flight
RECURSIVE SumLen(_, _)
SumLen(reqs, groups) ==
  IF groups = {} THEN 0
  ELSE LET g == CHOOSE x \in groups : TRUE
       IN Len(reqs[g]) + SumLen(reqs, groups \ {g})

Issue(reqs) ==
  /\ issued' = issued + SumLen(reqs, Categories) - SumLen(inflight, Categories)
  /\ issued' <= MaxRequests

\* the commit of a discrete event: pending effects of the previous render
\* run first, then the new render's effects run within the same task
SyncCommit(after, expanded) ==
  LET flushed == [g \in Categories |->
                    IF effectDue THEN AutoLoad(after[g], view, g) ELSE after[g]]
      shown == Snapshot([g \in Categories |-> flushed[g].data], expanded, overview)
      final == [g \in Categories |-> AutoLoad(flushed[g], shown, g)]
  IN /\ Issue([g \in Categories |-> final[g].reqs])
     /\ categorySnpsData' = [g \in Categories |-> final[g].data]
     /\ inflight' = [g \in Categories |-> final[g].reqs]
     /\ autoRequests' = [g \in Categories |-> final[g].autos]
     /\ expandedGroups' = expanded
     /\ view' = shown
     /\ effectDue' = FALSE

\* the user clicks a group header
ToggleGroup(groupId) ==
  /\ view.overview.loaded
  /\ LET wasExpanded == groupId \in expandedGroups
         after == [g \in Categories |->
                     IF g = groupId
                       THEN toggleGroup(Cat(g), view, groupId, wasExpanded)
                       ELSE Cat(g)]
     IN SyncCommit(after, IF wasExpanded THEN expandedGroups \ {groupId}
                                         ELSE expandedGroups \cup {groupId})
  /\ UNCHANGED <<variant, server, overview, overviewRequest, subsVars, probe, uploadVars>>

\* hasMore && <button disabled={loadedData?.isLoading}> of an expanded group
LoadMoreOffered(shown, groupId) ==
  LET loadedData == shown.data[groupId]
  IN /\ shown.overview.loaded
     /\ groupId \in shown.expanded
     /\ IF loadedData.present THEN loadedData.hasMore
        ELSE GroupOf(shown.overview, groupId).totalCount > TopCount
     /\ ~(loadedData.present /\ loadedData.isLoading)

\* the user clicks Load More
ClickLoadMore(groupId) ==
  /\ LoadMoreOffered(view, groupId)
  /\ LET after == [g \in Categories |->
                     IF g = groupId
                       THEN loadMore(Cat(g), view.data[g])
                       ELSE Cat(g)]
     IN SyncCommit(after, expandedGroups)
  /\ UNCHANGED <<variant, server, overview, overviewRequest, subsVars, probe, uploadVars>>

\* a render of updates that no click made; its effects run later
Render ==
  LET flushed == [g \in Categories |->
                    IF effectDue THEN AutoLoad(Cat(g), view, g) ELSE Cat(g)]
      shown == Snapshot([g \in Categories |-> flushed[g].data], expandedGroups, overview)
  IN /\ shown # view
     /\ Issue([g \in Categories |-> flushed[g].reqs])
     /\ categorySnpsData' = [g \in Categories |-> flushed[g].data]
     /\ inflight' = [g \in Categories |-> flushed[g].reqs]
     /\ autoRequests' = [g \in Categories |-> flushed[g].autos]
     /\ view' = shown
     /\ effectDue' = (variant = "autoload"
                      /\ (shown.data # view.data \/ shown.expanded # view.expanded))
     /\ UNCHANGED <<variant, server, overview, overviewRequest, expandedGroups, subsVars, probe, uploadVars>>

\* the auto-load effect of the last render runs
AutoLoadEffect ==
  /\ effectDue
  /\ LET final == [g \in Categories |-> AutoLoad(Cat(g), view, g)]
     IN /\ Issue([g \in Categories |-> final[g].reqs])
        /\ categorySnpsData' = [g \in Categories |-> final[g].data]
        /\ inflight' = [g \in Categories |-> final[g].reqs]
        /\ autoRequests' = [g \in Categories |-> final[g].autos]
     /\ effectDue' = FALSE
  /\ UNCHANGED <<variant, server, overview, overviewRequest, expandedGroups, view, subsVars, probe, uploadVars>>

\* getGenomeAnalysisOverview resolves / rejects
OverviewArrives ==
  /\ overviewRequest = "pending"
  /\ overview' = [loaded |-> TRUE, categoryGroups |-> OverviewResponse(server)]
  /\ overviewRequest' = "done"
  /\ UNCHANGED <<variant, server, expandedGroups, categorySnpsData, inflight, view,
                 effectDue, issued, autoRequests, subsVars, probe, uploadVars>>

OverviewFails ==
  /\ overviewRequest = "pending"
  /\ overviewRequest' = "failed"
  /\ UNCHANGED <<variant, server, overview, expandedGroups, categorySnpsData, inflight,
                 view, effectDue, issued, autoRequests, subsVars, probe, uploadVars>>

\* a listCategorySnps request resolves with its page
PageArrives(groupId, i) ==
  /\ i \in 1..Len(inflight[groupId])
  /\ LET page == ListCategorySnpsResponse(server[groupId], inflight[groupId][i].offset, PageLimit)
     IN /\ categorySnpsData' =
             [categorySnpsData EXCEPT ![groupId] = pageLoaded(Cat(groupId), page).data]
  /\ inflight' = [inflight EXCEPT ![groupId] = RemoveAt(@, i)]
  /\ UNCHANGED <<variant, server, overview, overviewRequest, expandedGroups, view,
                 effectDue, issued, autoRequests, subsVars, probe, uploadVars>>

\* a listCategorySnps request rejects
PageFails(groupId, i) ==
  /\ i \in 1..Len(inflight[groupId])
  /\ categorySnpsData' = [categorySnpsData EXCEPT ![groupId] = pageFailed(Cat(groupId)).data]
  /\ inflight' = [inflight EXCEPT ![groupId] = RemoveAt(@, i)]
  /\ UNCHANGED <<variant, server, overview, overviewRequest, expandedGroups, view,
                 effectDue, issued, autoRequests, subsVars, probe, uploadVars>>

ResultsInit ==
  /\ variant \in {"autoload", "preview"}
  /\ \E t \in [Categories -> 0..MaxTotal], f \in [Categories -> 1..Len(DescKeys)] :
       /\ \A g \in Categories : t[g] \in TotalChoices(g) /\ f[g] \in FirstKeyChoices(g)
       /\ server = [g \in Categories |-> PrecomputedOrder(t[g], f[g], MaxSpread)]
  /\ overview = NoOverview
  /\ overviewRequest = "pending"
  /\ expandedGroups = {}
  /\ categorySnpsData = [g \in Categories |-> NoData]
  /\ inflight = [g \in Categories |-> <<>>]
  /\ view = Snapshot([g \in Categories |-> NoData], {}, NoOverview)
  /\ effectDue = FALSE
  /\ issued = 0
  /\ autoRequests = [g \in Categories |-> 0]
  /\ SubsInit(NoItem)

ResultsNext ==
  \/ OverviewArrives
  \/ OverviewFails
  \/ \E g \in Categories : ToggleGroup(g)
  \/ \E g \in Categories : ClickLoadMore(g)
  \/ Render
  \/ AutoLoadEffect
  \/ \E g \in Categories : \E i \in 1..MaxRequests : PageArrives(g, i)
  \/ \E g \in Categories : \E i \in 1..MaxRequests : PageFails(g, i)

(***************************************************************************)
(* Risk classification of the backend, as the decision table of spec.md    *)
(* 4.5 states it (first matching row wins)                                 *)
(***************************************************************************)
EvidenceLevels == {"strong", "moderate", "weak"}
EffectSizes == {"high", "moderate", "low"}

ClassifyRisk(matched, carries, evidence, effect, rare) ==
  IF ~matched THEN "unknown"
  ELSE IF ~carries THEN "lower"
  ELSE IF evidence = "strong" /\ effect = "high" /\ rare THEN "very_high"
  ELSE IF evidence = "strong" /\ (effect = "moderate" \/ ~rare) THEN "high"
  ELSE IF evidence = "moderate" \/ ~rare THEN "moderate"
  ELSE IF evidence = "weak" THEN "slight"
  ELSE "unknown"

\* the variant as the API sends it
ScoredVariant(matched, carries, evidence, effect, rare, score) ==
  [rsid |-> 1,
   riskLevel |-> ClassifyRisk(matched, carries, evidence, effect, rare),
   importanceScore |-> score,
   userHasRiskAllele |-> IF carries THEN "true" ELSE "false"]

(***************************************************************************)
(* Applications of the pure helpers to inputs from bounded sets            *)
(***************************************************************************)

NoProbe == [kind |-> "none"]

SnpInputs == [rsid : {1}, riskLevel : RiskInputs, importanceScore : ScoreInputs,
              userHasRiskAllele : {"true"}]

\* one call of the comparator of sortSnps
CompareProbe ==
  /\ \E a \in SnpInputs, b \in SnpInputs :
       probe' = [kind |-> "compare", a |-> a, b |-> b,
                 priorityA |-> getRiskPriority(a.riskLevel),
                 priorityB |-> getRiskPriority(b.riskLevel),
                 result |-> compareSnps(a, b)]
  /\ UNCHANGED <<resultsVars, uploadVars>>

\* one SNP row rendered with its risk badge
BucketProbe ==
  /\ \E riskLevel \in RiskInputs :
       probe' = [kind |-> "bucket", riskLevel |-> riskLevel,
                 label |-> getRiskBucket(riskLevel),
                 priority |-> getRiskPriority(riskLevel)]
  /\ UNCHANGED <<resultsVars, uploadVars>>

\* one variant classified by the backend and parsed by the client
ClassifyProbe ==
  /\ \E matched \in BOOLEAN, carries \in BOOLEAN, evidence \in EvidenceLevels,
        effect \in EffectSizes, rare \in BOOLEAN, score \in ScoreInputs :
       probe' = [kind |-> "classify", carries |-> carries, matched |-> matched,
                 snp |-> SNPfromObject(ScoredVariant(matched, carries, evidence,
                                                     effect, rare, score))]
  /\ UNCHANGED <<resultsVars, uploadVars>>

\* numbers a response may carry in an optional field (NoNumber: absent or null)
NumberInputs == {NoNumber, 0, 1, 3}

\* one SNP of a response parsed by the client
SnpParseProbe ==
  /\ \E obj \in [importanceScore : NumberInputs, clinvarSignificance : NumberInputs,
                  oddsRatio : NumberInputs, riskAlleleFrequency : NumberInputs] :
       probe' = [kind |-> "parseSnp", sent |-> obj,
                 parsed |-> SNPNumbersfromObject(obj)]
  /\ UNCHANGED <<resultsVars, uploadVars>>

\* one analysis summary of a response parsed by the client
SummaryParseProbe ==
  /\ \E obj \in [totalSnps : NumberInputs, matchedSnps : NumberInputs,
                  totalAssociations : NumberInputs, clinvarCount : NumberInputs] :
       probe' = [kind |-> "parseSummary", sent |-> obj,
                 parsed |-> GenomeAnalysisSummaryfromObject(obj)]
  /\ UNCHANGED <<resultsVars, uploadVars>>

(***************************************************************************)
(* fileUploadStore: the module-level Map of pending uploads                *)
(***************************************************************************)
\* ids the backend gives to the analyses it creates, in order of creation
AnalysisIds == 1..MaxClicks
\* no id: the state before the mount effect read the URL
NoId == 0
Files == {"f1", "f2"}
\* undefined / null of a File
NoFile == "<no file>"

setPendingUpload(uploads, analysisId, file) == [uploads EXCEPT ![analysisId] = file]

getPendingUpload(uploads, analysisId) == uploads[analysisId]

clearPendingUploadAll(uploads, analysisId) == [id \in DOMAIN uploads |-> NoFile]

clearPendingUpload(uploads, analysisId) == [uploads EXCEPT ![analysisId] = NoFile]

(***************************************************************************)
(* UploadPage: polling and step transitions                                *)
(***************************************************************************)

\* ALL_STEPS: the status of step 1..6
ALL_STEPS == <<"waiting_for_upload", "uploading", "validating", "parsing",
               "building_baseline", "completed">>
\* statuses the backend may report
StatusInputs == {ALL_STEPS[i] : i \in 1..Len(ALL_STEPS)} \cup {"failed"}

getCurrentStepNumber(status) ==
  IF \E i \in 1..Len(ALL_STEPS) : ALL_STEPS[i] = status
    THEN CHOOSE i \in 1..Len(ALL_STEPS) : ALL_STEPS[i] = status
    ELSE 1

NoResults == [present |-> FALSE, results |-> <<>>]
NoTimer == [active |-> FALSE, next |-> NullStr]

\* overview.categoryGroups.map(group => new GenomeAnalysisResult(...))
ResultsOfOverview(categoryGroups) ==
  [i \in 1..Len(categoryGroups) |->
     [genomeAnalysisResultId |-> categoryGroups[i].genomeAnalysisResultId,
      snps |-> categoryGroups[i].topSnps]]

\* the condition under which a poll's continuation requests the overview
requestsOverviewAnyStatus(status) == TRUE

requestsOverview(status) == status = "completed"

\* clearInterval(intervalId) of the polling effect's interval
clearIntervalNoop(active) == active

clearInterval(active) == FALSE

\* genomeAnalysisResults.reduce((sum, r) => sum + r.snps.length, 0)
RECURSIVE TotalSnpsIdentified(_)
TotalSnpsIdentified(results) ==
  IF results = <<>> THEN 0
  ELSE Len(results[Len(results)].snps)
         + TotalSnpsIdentified(SubSeq(results, 1, Len(results) - 1))

\* what the page renders
ProgressViewRendered == ~genomeAnalysisResults.present /\ genomeAnalysis # NullStr
CompletedViewRendered ==
  genomeAnalysisResults.present /\ genomeAnalysis # NullStr /\ displayedStatus = "completed"

UploadFailedMessage == "Failed to upload file. Please try again."
NoFileFoundMessage == "No file found for upload. Please start over."
LoadFailedMessage == "Failed to load analysis. Please try again."

\* the condition under which the mount effect calls uploadGenomeFile
startsUploadAnyStatus(status, file) == file # NoFile

startsUpload(status, file) == status = "waiting_for_upload" /\ file # NoFile

\* the getGenomeAnalysis of the mount effect resolves / rejects
MountFetchReturns(status) ==
  /\ mountFetch = "pending"
  /\ mountFetch' = "done"
  /\ genomeAnalysis' = status
  /\ mountStatus' = status
  /\ stepEffectDue' = TRUE
  /\ LET file == getPendingUpload(pendingUploads, genomeAnalysisId)
     IN IF startsUpload(status, file)
          THEN /\ uploadRequest' = "pending"
               /\ uploadCalls' = uploadCalls + 1
               /\ UNCHANGED errorMessage
          ELSE /\ errorMessage' = IF status = "waiting_for_upload"
                                    THEN NoFileFoundMessage ELSE errorMessage
               /\ UNCHANGED <<uploadRequest, uploadCalls>>
  /\ UNCHANGED <<genomeAnalysisResults, displayedStatus, intervalActive, polls,
                 overviewFetches, stepTimer, completedPolled, overviewFailed,
                 genomeAnalysisId, pendingUploads, homeVars, resultsVars, probe>>

MountFetchFails ==
  /\ mountFetch = "pending"
  /\ mountFetch' = "failed"
  /\ errorMessage' = LoadFailedMessage
  /\ UNCHANGED <<genomeAnalysis, genomeAnalysisResults, displayedStatus, intervalActive,
                 polls, overviewFetches, stepTimer, stepEffectDue, completedPolled,
                 overviewFailed, genomeAnalysisId, pendingUploads, uploadRequest,
                 uploadCalls, mountStatus, homeVars, resultsVars, probe>>

\* uploadGenomeFile of the mount effect resolves / rejects
UploadReturns ==
  /\ uploadRequest = "pending"
  /\ uploadRequest' = "done"
  /\ pendingUploads' = clearPendingUpload(pendingUploads, genomeAnalysisId)
  /\ UNCHANGED <<genomeAnalysis, genomeAnalysisResults, displayedStatus, intervalActive,
                 polls, overviewFetches, mountFetch, stepTimer, stepEffectDue,
                 completedPolled, overviewFailed, genomeAnalysisId, uploadCalls,
                 errorMessage, mountStatus, homeVars, resultsVars, probe>>

UploadFails ==
  /\ uploadRequest = "pending"
  /\ uploadRequest' = "failed"
  /\ errorMessage' = UploadFailedMessage
  /\ UNCHANGED <<genomeAnalysis, genomeAnalysisResults, displayedStatus, intervalActive,
                 polls, overviewFetches, mountFetch, stepTimer, stepEffectDue,
                 completedPolled, overviewFailed, genomeAnalysisId, pendingUploads,
                 uploadCalls, mountStatus, homeVars, resultsVars, probe>>

\* the interval fires: a status poll starts
PollTick ==
  /\ intervalActive
  /\ polls < MaxPolls
  /\ polls' = polls + 1
  /\ UNCHANGED <<genomeAnalysis, genomeAnalysisResults, displayedStatus, intervalActive,
                 overviewFetches, mountFetch, stepTimer, stepEffectDue, completedPolled, overviewFailed, mountVars, homeVars, resultsVars, probe>>

\* a status poll resolves
PollReturns(status) ==
  /\ polls > 0
  /\ requestsOverview(status) => overviewFetches < MaxPolls
  /\ polls' = polls - 1
  /\ genomeAnalysis' = status
  /\ overviewFetches' = IF requestsOverview(status) THEN overviewFetches + 1
                        ELSE overviewFetches
  /\ completedPolled' = (completedPolled \/ status = "completed")
  /\ stepEffectDue' = TRUE
  /\ UNCHANGED <<genomeAnalysisResults, displayedStatus, intervalActive, mountFetch,
                 stepTimer, overviewFailed, mountVars, homeVars, resultsVars, probe>>

\* a status poll rejects
PollFails ==
  /\ polls > 0
  /\ polls' = polls - 1
  /\ UNCHANGED <<genomeAnalysis, genomeAnalysisResults, displayedStatus, intervalActive,
                 overviewFetches, mountFetch, stepTimer, stepEffectDue, completedPolled, overviewFailed, mountVars, homeVars, resultsVars, probe>>

\* the overview requested by a poll resolves
UploadOverviewReturns ==
  /\ overviewFetches > 0
  /\ overviewFetches' = overviewFetches - 1
  /\ genomeAnalysisResults' =
       [present |-> TRUE, results |-> ResultsOfOverview(OverviewResponse(server))]
  /\ displayedStatus' = "completed"
  /\ intervalActive' = clearInterval(intervalActive)
  /\ stepEffectDue' = TRUE
  /\ UNCHANGED <<genomeAnalysis, polls, mountFetch, stepTimer, completedPolled, overviewFailed, mountVars, homeVars, resultsVars, probe>>

\* the overview requested by a poll rejects
UploadOverviewFails ==
  /\ overviewFetches > 0
  /\ overviewFetches' = overviewFetches - 1
  /\ overviewFailed' = TRUE
  /\ UNCHANGED <<genomeAnalysis, genomeAnalysisResults, displayedStatus, intervalActive,
                 polls, mountFetch, stepTimer, stepEffectDue, completedPolled, mountVars, homeVars, resultsVars, probe>>

\* the step transition effect re-runs: its cleanup clears the old timeout,
\* then a timeout for the next step is set if the display is behind
StepEffect ==
  /\ stepEffectDue
  /\ stepEffectDue' = FALSE
  /\ LET currentStepNumber == getCurrentStepNumber(displayedStatus)
         backendStepNumber == getCurrentStepNumber(genomeAnalysis)
         nextStepNumber == currentStepNumber + 1
     IN stepTimer' =
          IF genomeAnalysis = NullStr THEN NoTimer
          ELSE IF currentStepNumber >= backendStepNumber THEN NoTimer
          ELSE IF nextStepNumber > Len(ALL_STEPS) THEN NoTimer
          ELSE [active |-> TRUE, next |-> ALL_STEPS[nextStepNumber]]
  /\ UNCHANGED <<genomeAnalysis, genomeAnalysisResults, displayedStatus, intervalActive,
                 polls, overviewFetches, mountFetch, completedPolled, overviewFailed, mountVars, homeVars, resultsVars, probe>>

\* the timeout of the step transition effect fires
StepTimerFires ==
  /\ stepTimer.active
  /\ displayedStatus' = stepTimer.next
  /\ stepTimer' = NoTimer
  /\ stepEffectDue' = TRUE
  /\ UNCHANGED <<genomeAnalysis, genomeAnalysisResults, intervalActive, polls,
                 overviewFetches, mountFetch, completedPolled, overviewFailed, mountVars, homeVars, resultsVars, probe>>

(***************************************************************************)
(* HomePage: consent, file selection, Continue.  Leaving the page unmounts *)
(* it: its state is dropped, while createGenomeAnalysis requests still in  *)
(* flight run their continuation.  navigateTo on the mounted UploadPage    *)
(* changes the URL only: the mount effect has no dependencies.             *)
(***************************************************************************)
StartFailedMessage == "Failed to start analysis. Please try again."

\* the guard of onContinueClick
continueAllowedWithoutConsent(consent, file) == file # NoFile

continueAllowed(consent, file) == consent /\ file # NoFile

\* the consent checkbox is toggled
ToggleConsent ==
  /\ screen = "home"
  /\ hasCheckedConsent' = ~hasCheckedConsent
  /\ UNCHANGED <<selectedFile, homeError, creates, created, clicks, navigations, stored,
                 screen, pollVars, intervalActive, mountFetch, mountVars, resultsVars, probe>>

\* onFileSelected
SelectFile(file) ==
  /\ screen = "home"
  /\ selectedFile' = file
  /\ UNCHANGED <<hasCheckedConsent, homeError, creates, created, clicks, navigations,
                 stored, screen, pollVars, intervalActive, mountFetch, mountVars,
                 resultsVars, probe>>

\* onContinueClick up to its await
ContinueClick ==
  /\ screen = "home"
  /\ clicks < MaxClicks
  /\ clicks' = clicks + 1
  /\ IF continueAllowed(hasCheckedConsent, selectedFile)
       THEN /\ homeError' = NullStr
            /\ creates' = Append(creates, [file |-> selectedFile])
       ELSE UNCHANGED <<homeError, creates>>
  /\ UNCHANGED <<hasCheckedConsent, selectedFile, created, navigations, stored, screen,
                 pollVars, intervalActive, mountFetch, mountVars, resultsVars, probe>>

\* createGenomeAnalysis resolves: the pending upload is stored under the
\* new id, then navigateTo mounts the UploadPage with that id
CreateReturns(i) ==
  /\ i \in 1..Len(creates)
  /\ LET id == created + 1
         file == creates[i].file
     IN /\ created' = id
        /\ pendingUploads' = setPendingUpload(pendingUploads, id, file)
        /\ stored' = [stored EXCEPT ![id] = file]
        /\ navigations' = Append(navigations, id)
        /\ IF screen = "home"
             THEN /\ screen' = "upload"
                  /\ genomeAnalysisId' = id
                  /\ mountFetch' = "pending"
                  /\ intervalActive' = TRUE
                  /\ hasCheckedConsent' = FALSE
                  /\ selectedFile' = NoFile
                  /\ homeError' = NullStr
             ELSE UNCHANGED <<screen, genomeAnalysisId, mountFetch, intervalActive,
                              hasCheckedConsent, selectedFile, homeError>>
  /\ creates' = RemoveAt(creates, i)
  /\ UNCHANGED <<clicks, pollVars, uploadCallVars, resultsVars, probe>>

\* createGenomeAnalysis rejects
CreateFails(i) ==
  /\ i \in 1..Len(creates)
  /\ creates' = RemoveAt(creates, i)
  /\ homeError' = IF screen = "home" THEN StartFailedMessage ELSE homeError
  /\ UNCHANGED <<hasCheckedConsent, selectedFile, created, clicks, navigations, stored,
                 screen, pollVars, intervalActive, mountFetch, mountVars, resultsVars, probe>>

\* /upload?id=.. is opened in a fresh tab: nothing is in the store
OpenUploadPage(id) ==
  /\ screen = "home" /\ clicks = 0
  /\ ~hasCheckedConsent /\ selectedFile = NoFile
  /\ screen' = "upload"
  /\ genomeAnalysisId' = id
  /\ mountFetch' = "pending"
  /\ intervalActive' = TRUE
  /\ UNCHANGED <<hasCheckedConsent, selectedFile, homeError, creates, created, clicks,
                 navigations, stored, pendingUploads, pollVars, uploadCallVars,
                 resultsVars, probe>>

(***************************************************************************)
(* Specifications                                                          *)
(***************************************************************************)
\* the ResultsPage before anything was fetched, over an empty backend
ResultsIdle ==
  /\ variant = "autoload"
  /\ overview = NoOverview
  /\ overviewRequest = "pending"
  /\ expandedGroups = {}
  /\ categorySnpsData = [g \in Categories |-> NoData]
  /\ inflight = [g \in Categories |-> <<>>]
  /\ view = Snapshot([g \in Categories |-> NoData], {}, NoOverview)
  /\ effectDue = FALSE
  /\ issued = 0
  /\ autoRequests = [g \in Categories |-> 0]
  /\ SubsInit(NoItem)

\* the HomePage on screen before any input, the store empty
HomeInit ==
  /\ screen = "home"
  /\ hasCheckedConsent = FALSE
  /\ selectedFile = NoFile
  /\ homeError = NullStr
  /\ creates = <<>>
  /\ created = 0
  /\ clicks = 0
  /\ navigations = <<>>
  /\ stored = [id \in AnalysisIds |-> NoFile]
  /\ pendingUploads = [id \in AnalysisIds |-> NoFile]
  /\ genomeAnalysisId = NoId
  /\ uploadRequest = "none"
  /\ uploadCalls = 0
  /\ errorMessage = NullStr
  /\ mountStatus = NullStr

\* the state HomePage leaves when the UploadPage is mounted with id 1:
\* after one Continue with the given file, or (NoFile) opened in a fresh tab
MountedInit(file) ==
  /\ screen = "upload"
  /\ hasCheckedConsent = FALSE
  /\ selectedFile = NoFile
  /\ homeError = NullStr
  /\ creates = <<>>
  /\ created = (IF file = NoFile THEN 0 ELSE 1)
  /\ clicks = (IF file = NoFile THEN 0 ELSE 1)
  /\ navigations = (IF file = NoFile THEN <<>> ELSE <<1>>)
  /\ stored = [id \in AnalysisIds |-> IF id = 1 THEN file ELSE NoFile]
  /\ pendingUploads = [id \in AnalysisIds |-> IF id = 1 THEN file ELSE NoFile]
  /\ genomeAnalysisId = 1
  /\ uploadRequest = "none"
  /\ uploadCalls = 0
  /\ errorMessage = NullStr
  /\ mountStatus = NullStr

\* the UploadPage before it is mounted: the initial values of its state
UploadIdle ==
  /\ genomeAnalysis = NullStr
  /\ genomeAnalysisResults = NoResults
  /\ displayedStatus = "waiting_for_upload"
  /\ intervalActive = FALSE
  /\ polls = 0
  /\ overviewFetches = 0
  /\ mountFetch = "none"
  /\ stepTimer = NoTimer
  /\ stepEffectDue = FALSE
  /\ completedPolled = FALSE
  /\ overviewFailed = FALSE

\* the UploadPage after its mount effect, the analysis id taken from the URL
UploadInit ==
  /\ genomeAnalysis = NullStr
  /\ genomeAnalysisResults = NoResults
  /\ displayedStatus = "waiting_for_upload"
  /\ intervalActive = TRUE
  /\ polls = 0
  /\ overviewFetches = 0
  /\ mountFetch = "pending"
  /\ stepTimer = NoTimer
  /\ stepEffectDue = FALSE
  /\ completedPolled = FALSE
  /\ overviewFailed = FALSE

UploadNext ==
  \/ \E status \in StatusInputs : MountFetchReturns(status)
  \/ MountFetchFails
  \/ UploadReturns
  \/ UploadFails
  \/ PollTick
  \/ \E status \in StatusInputs : PollReturns(status)
  \/ PollFails
  \/ UploadOverviewReturns
  \/ UploadOverviewFails
  \/ StepEffect
  \/ StepTimerFires

\* HomePage, and the mount effect of the UploadPage it navigates to
FlowNext ==
  \/ ToggleConsent
  \/ \E file \in Files : SelectFile(file)
  \/ ContinueClick
  \/ \E i \in 1..MaxClicks : CreateReturns(i)
  \/ \E i \in 1..MaxClicks : CreateFails(i)
  \/ \E id \in AnalysisIds : OpenUploadPage(id)
  \/ \E status \in StatusInputs : MountFetchReturns(status)
  \/ MountFetchFails
  \/ UploadReturns
  \/ UploadFails

PureNext ==
  \/ CompareProbe
  \/ BucketProbe
  \/ ClassifyProbe
  \/ SnpParseProbe
  \/ SummaryParseProbe

\* the ResultsPage
InitResults == ResultsInit /\ probe = NoProbe /\ UploadIdle /\ HomeInit

SpecResults == InitResults /\ [][ResultsNext]_vars

\* the UploadPage, over a backend holding one category of three variants
\* and one of more variants than the overview carries as its top SNPs
InitUpload ==
  /\ ResultsIdle /\ probe = NoProbe /\ UploadInit
  /\ \E file \in Files \cup {NoFile} : MountedInit(file)
  /\ server = [g \in Categories |->
                 IF g = "c1" THEN PrecomputedOrder(3, 1, MaxSpread)
                 ELSE PrecomputedOrder(TopCount + 2, 1, MaxSpread)]

SpecUpload == InitUpload /\ [][UploadNext]_vars

\* from the HomePage to the mounted UploadPage
InitFlow ==
  /\ ResultsIdle /\ probe = NoProbe /\ UploadIdle /\ HomeInit
  /\ server = [g \in Categories |-> <<>>]

SpecFlow == InitFlow /\ [][FlowNext]_vars

\* the subscriptions of the ResultsPage, over what localStorage may hold
InitSubs ==
  /\ variant = "autoload"
  /\ overview = NoOverview
  /\ overviewRequest = "pending"
  /\ expandedGroups = {}
  /\ categorySnpsData = [g \in Categories |-> NoData]
  /\ inflight = [g \in Categories |-> <<>>]
  /\ view = Snapshot([g \in Categories |-> NoData], {}, NoOverview)
  /\ effectDue = FALSE
  /\ issued = 0
  /\ autoRequests = [g \in Categories |-> 0]
  /\ \E item \in StoredChoices : SubsInit(item)
  /\ probe = NoProbe /\ UploadIdle /\ HomeInit
  /\ server = [g \in Categories |-> <<>>]

SpecSubs == InitSubs /\ [][SubsNext]_vars

\* the pure helpers
InitPure ==
  /\ ResultsIdle /\ probe = NoProbe /\ UploadIdle /\ HomeInit
  /\ server = [g \in Categories |-> <<>>]

SpecPure == InitPure /\ [][PureNext]_vars

(***************************************************************************)
(* What ResultsPage renders                                                *)
(***************************************************************************)
renderedGroupsReversed(ov) ==
  [i \in 1..Len(ov.categoryGroups) |->
     ov.categoryGroups[Len(ov.categoryGroups) + 1 - i].genomeAnalysisResultId]

\* overview.categoryGroups.map(...): one card per group, in overview order
renderedGroups(ov) ==
  [i \in 1..Len(ov.categoryGroups) |-> ov.categoryGroups[i].genomeAnalysisResultId]

(***************************************************************************)
(* Properties                                                              *)
(***************************************************************************)
\* position of a risk level in very_high > high > moderate > slight > lower
\* > unknown; every value outside the five named levels counts as unknown
LevelRank(riskLevel) ==
  IF riskLevel \in NamedLevels
    THEN CHOOSE i \in 1..Len(RiskLevels) : RiskLevels[i] = riskLevel
    ELSE Len(RiskLevels)

\* a comes no later than b in the order of spec.md 4.6
InDisplayOrder(a, b) ==
  \/ LevelRank(a.riskLevel) < LevelRank(b.riskLevel)
  \/ /\ LevelRank(a.riskLevel) = LevelRank(b.riskLevel)
     /\ ScoreOrZero(a.importanceScore) >= ScoreOrZero(b.importanceScore)

\* C1: the SNP list held for a category is always ordered by risk level
\* (very_high first) and, within one level, by importanceScore descending,
\* a missing score counting as 0.
C1_SnpsOrdered ==
  \A g \in Categories :
    LET snps == categorySnpsData[g].snps
    IN \A i \in 1..Len(snps) - 1 : InDisplayOrder(snps[i], snps[i + 1])

\* two pages have been loaded into one list that spans several sort keys
C1_Witness ==
  \E g \in Categories :
    LET snps == categorySnpsData[g].snps
    IN /\ Len(snps) > PageLimit
       /\ ~categorySnpsData[g].isLoading
       /\ LevelRank(snps[1].riskLevel) < LevelRank(snps[Len(snps)].riskLevel)

\* the page that the i-th request in flight for a category will receive
PageOf(g, i) == ListCategorySnpsResponse(server[g], inflight[g][i].offset, PageLimit)

\* C2: the list shown for a category is the delivered pages concatenated in
\* the order of their delivery: every page that arrives is appended, as it
\* is, behind the SNPs already held.
C2_PagesConcatenated ==
  [][\A g \in Categories :
       (/\ Len(inflight'[g]) < Len(inflight[g])
        /\ categorySnpsData'[g].snps # categorySnpsData[g].snps)
         => \E i \in 1..Len(inflight[g]) :
              categorySnpsData'[g].snps = categorySnpsData[g].snps \o PageOf(g, i).snps]_vars

\* C3: every request asks for offset = number of SNPs held, and the list
\* accumulated for a category is the category's precomputed order without
\* duplicates and without gaps: a prefix of it while more can be loaded,
\* all of it once hasMore is false.
C3_PagesReconstructOrder ==
  /\ [][\A g \in Categories :
          Len(inflight'[g]) > Len(inflight[g])
            => \A i \in Len(inflight[g]) + 1..Len(inflight'[g]) :
                 inflight'[g][i].offset = Len(categorySnpsData[g].snps)]_vars
  /\ [](\A g \in Categories :
          LET data == categorySnpsData[g]
          IN data.present =>
               /\ Len(data.snps) <= Len(server[g])
               /\ data.snps = MapSNPs(SubSeq(server[g], 1, Len(data.snps)))
               /\ (~data.hasMore /\ ~data.isLoading /\ inflight[g] = <<>>)
                    => Len(data.snps) = Len(server[g]))

\* C4: getRiskPriority gives 100, 90, 75, 55, 1, 0 along very_high > high >
\* moderate > slight > lower > unknown, so the comparator of sortSnps puts
\* the SNP of the higher level first.
C4_PriorityFollowsLevels ==
  probe.kind = "compare" =>
    LET expected == <<100, 90, 75, 55, 1, 0>>
    IN /\ probe.priorityA = expected[LevelRank(probe.a.riskLevel)]
       /\ probe.priorityB = expected[LevelRank(probe.b.riskLevel)]
       /\ LevelRank(probe.a.riskLevel) < LevelRank(probe.b.riskLevel)
            => (probe.priorityA > probe.priorityB /\ probe.result < 0)

\* a slight-risk SNP has been compared with a lower-risk one
C4_Witness ==
  /\ probe.kind = "compare"
  /\ probe.a.riskLevel = "slight"
  /\ probe.b.riskLevel = "lower"

\* C5: unless a status poll has returned 'completed', no overview is
\* requested, genomeAnalysisResults is null and the completed view is not
\* rendered, whatever other statuses ('failed', in-progress) were polled.
C5_NoPartialResult ==
  ~completedPolled =>
    /\ overviewFetches = 0
    /\ ~genomeAnalysisResults.present
    /\ ~CompletedViewRendered

\* a poll (the mount fetch having failed) returned 'failed'
C5_Witness ==
  /\ mountFetch = "failed"
  /\ genomeAnalysis = "failed"
  /\ ~completedPolled
  /\ ~genomeAnalysisResults.present

\* C6: for every riskLevel outside the five named levels getRiskBucket
\* gives the 'Unknown Risk' bucket and getRiskPriority gives 0.
C6_DefaultsToUnknown ==
  (probe.kind = "bucket" /\ probe.riskLevel \notin NamedLevels) =>
    (probe.label = "Unknown Risk" /\ probe.priority = 0)

\* an unrecognised riskLevel has been rendered
C6_Witness ==
  /\ probe.kind = "bucket"
  /\ probe.riskLevel = "elevated"

\* highest risk level present in what the backend holds for a category
HighestRank(order) ==
  IF order = <<>> THEN Len(RiskLevels) + 1 ELSE LevelRank(order[1].riskLevel)

\* C8: the category cards are rendered by highest risk level present
\* (descending), then by variant count (descending).
C8_CategoriesOrdered ==
  view.overview.loaded =>
    LET shown == renderedGroups(view.overview)
    IN \A i \in 1..Len(shown) - 1 :
         \/ HighestRank(server[shown[i]]) < HighestRank(server[shown[i + 1]])
         \/ /\ HighestRank(server[shown[i]]) = HighestRank(server[shown[i + 1]])
            /\ Len(server[shown[i]]) >= Len(server[shown[i + 1]])

\* the smaller category is rendered first because its top risk is higher
C8_Witness ==
  /\ view.overview.loaded
  /\ renderedGroups(view.overview) = <<"c2", "c1">>
  /\ Len(server["c2"]) < Len(server["c1"])

\* C9: a parsed variant with riskLevel = lower has userHasRiskAllele =
\* false, and one with userHasRiskAllele = false is never very_high, high
\* or moderate.
C9_AllelePresenceBoundsRisk ==
  probe.kind = "classify" =>
    /\ probe.snp.riskLevel = "lower" => probe.snp.userHasRiskAllele = "false"
    /\ probe.snp.userHasRiskAllele = "false"
         => probe.snp.riskLevel \notin {"very_high", "high", "moderate"}

\* a matched variant whose risk allele the user does not carry
C9_Witness ==
  /\ probe.kind = "classify"
  /\ probe.matched /\ ~probe.carries
  /\ probe.snp.riskLevel = "lower"

\* C10: at most one listCategorySnps request per category is in flight.
C10_OneRequestInFlight ==
  \A g \in Categories : Len(inflight[g]) <= 1

\* C11: whenever genomeAnalysisResults is non-null, displayedStatus is
\* 'completed', so the completed view is what the page renders.
C11_NoBlankScreen ==
  genomeAnalysisResults.present => displayedStatus = "completed"

\* C12: for each category the auto-load effect issues its page request at
\* most once, whatever the outcome of that request.
C12_AutoLoadOnce ==
  \A g \in Categories : autoRequests[g] <= 1

\* C13: when a listCategorySnps request of a category fails, the
\* category's entry becomes not-loading, its snps, totalCount and hasMore
\* stay as they were, and the entry of every other category is unchanged.
C13_FailureKeepsData ==
  [][\A g \in Categories : \A i \in 1..MaxRequests :
       PageFails(g, i) =>
         /\ ~categorySnpsData'[g].isLoading
         /\ categorySnpsData'[g].snps = categorySnpsData[g].snps
         /\ categorySnpsData'[g].totalCount = categorySnpsData[g].totalCount
         /\ categorySnpsData'[g].hasMore = categorySnpsData[g].hasMore
         /\ \A h \in Categories \ {g} : categorySnpsData'[h] = categorySnpsData[h]]_vars

\* one page is held and a later request of the same category has failed:
\* two requests were issued, none is in flight, and a second page that had
\* arrived would have made the list longer than one page
C13_Witness ==
  \E g \in Categories :
    /\ Len(categorySnpsData[g].snps) = PageLimit
    /\ ~categorySnpsData[g].isLoading
    /\ categorySnpsData[g].hasMore
    /\ issued = 2
    /\ \A h \in Categories : inflight[h] = <<>>
    /\ \A h \in Categories \ {g} : ~categorySnpsData[h].present

\* C14: once the overview has arrived the polling interval is cleared and
\* no further status poll is started; until then (in particular after an
\* overview request failed) the interval stays set, and every poll that
\* returns 'completed' requests the overview again.
C14_PollingStops ==
  /\ [](genomeAnalysisResults.present => ~intervalActive)
  /\ [][genomeAnalysisResults.present => polls' <= polls]_vars
  /\ [](~genomeAnalysisResults.present => intervalActive)
  /\ [][PollReturns("completed") => overviewFetches' = overviewFetches + 1]_vars

\* an overview request failed, a later one succeeded and polling stopped
C14_Witness ==
  /\ overviewFailed
  /\ genomeAnalysisResults.present
  /\ ~intervalActive

\* C15: the file HomePage stored for an analysis id is what getPendingUpload
\* returns for that id until the upload for that id has succeeded (a failed
\* upload leaves it), it is cleared only by that success, and a step that
\* sets or clears the entry of one id leaves every other entry alone.
C15_PendingUploadKept ==
  /\ [](\A id \in AnalysisIds :
          stored[id] # NoFile =>
            getPendingUpload(pendingUploads, id) =
              IF id = genomeAnalysisId /\ uploadRequest = "done"
                THEN NoFile ELSE stored[id])
  /\ [][\A id \in AnalysisIds :
          pendingUploads'[id] # pendingUploads[id] =>
            \A other \in AnalysisIds \ {id} :
              pendingUploads'[other] = pendingUploads[other]]_vars

\* the upload for the mounted id succeeded and cleared its entry, while the
\* file stored for another id is still there
C15_Witness ==
  /\ uploadRequest = "done"
  /\ stored[genomeAnalysisId] # NoFile
  /\ getPendingUpload(pendingUploads, genomeAnalysisId) = NoFile
  /\ \E other \in AnalysisIds \ {genomeAnalysisId} :
       /\ stored[other] # NoFile
       /\ getPendingUpload(pendingUploads, other) = stored[other]

\* C16: the mount effect invokes uploadGenomeFile exactly when the status it
\* fetched is 'waiting_for_upload' and a pending file exists for the id, and
\* at most once; with that status and no pending file the page shows 'No
\* file found for upload' and uploads nothing; with any other status, or
\* before the fetch returned, nothing is uploaded.
C16_UploadOnMount ==
  LET pending == stored[genomeAnalysisId] # NoFile
  IN /\ uploadCalls <= 1
     /\ mountFetch # "done" => uploadCalls = 0
     /\ mountFetch = "done" =>
          /\ uploadCalls = 1 <=> (mountStatus = "waiting_for_upload" /\ pending)
          /\ (mountStatus = "waiting_for_upload" /\ ~pending)
               => errorMessage = NoFileFoundMessage

\* the mount effect has uploaded the pending file, and polling went on
\* until a poll returned 'completed'
C16_Witness ==
  /\ mountFetch = "done"
  /\ mountStatus = "waiting_for_upload"
  /\ uploadCalls = 1
  /\ uploadRequest = "done"
  /\ completedPolled

C18_AtMostOneSubscription ==
  /\ [](loadSubscriptions(storedAtMount, <<>>).set = <<>>
          => Len(subscribedCategories) <= 1)
  /\ [][toggles' # toggles =>
          \E categoryId \in Categories :
            IF SetHas(subscribedCategories, categoryId)
              THEN subscribedCategories' = SetDelete(subscribedCategories, categoryId)
              ELSE IF Len(subscribedCategories) >= 1
                THEN /\ subscribedCategories' = subscribedCategories
                     /\ showSubscriptionPopup'
                ELSE subscribedCategories' = <<categoryId>>]_vars

\* one category was subscribed and the toggle of the other one was refused
C18_Witness ==
  /\ storedAtMount = NoItem
  /\ toggles = 2
  /\ Len(subscribedCategories) = 1
  /\ showSubscriptionPopup

\* the mount effects, the render of their update and its save effect ran
SubsSettled == subsMounted /\ ~subsRenderDue /\ ~subsSaveDue

\* C19: once mounting has settled the subscribed categories are the set
\* that localStorage held when the page was mounted, and whenever the page
\* has settled the stored item is the current set.
C19_SubscriptionsSurviveReload ==
  SubsSettled =>
    /\ (toggles = 0 /\ storedAtMount.kind = "array") =>
         {subscribedCategories[i] : i \in 1..Len(subscribedCategories)}
           = {storedAtMount.items[i] : i \in 1..Len(storedAtMount.items)}
    /\ JSONparse(notificationSubscriptions).ok
    /\ NewSet(JSONparse(notificationSubscriptions).value) = subscribedCategories

\* two stored subscriptions are back after the mount, and still stored
C19_Witness ==
  /\ SubsSettled
  /\ toggles = 0
  /\ storedAtMount = JSONstringify(<<"c2", "c1">>)
  /\ subscribedCategories = <<"c2", "c1">>
  /\ notificationSubscriptions = storedAtMount

\* C20: hasMore of a loaded category is true exactly when fewer SNPs are
\* held than the totalCount reported, and a page request is issued for a
\* category only while its hasMore is true.
C20_HasMoreBoundsRequests ==
  /\ [](\A g \in Categories :
          categorySnpsData[g].present =>
            (categorySnpsData[g].hasMore
               <=> Len(categorySnpsData[g].snps) < categorySnpsData[g].totalCount))
  /\ [][\A g \in Categories :
          Len(inflight'[g]) > Len(inflight[g]) => categorySnpsData'[g].hasMore]_vars

\* C21: displayedStatus changes only to the step right after the displayed
\* one, and only while the displayed step is behind the step of the latest
\* fetched status; the one exception is the jump to 'completed' made when
\* the overview arrives.
C21_StepsInOrder ==
  [][displayedStatus' # displayedStatus =>
       \/ /\ displayedStatus' = "completed"
          /\ overviewFetches' < overviewFetches
          /\ genomeAnalysisResults'.present
       \/ /\ getCurrentStepNumber(displayedStatus')
               = getCurrentStepNumber(displayedStatus) + 1
          /\ getCurrentStepNumber(displayedStatus)
               < getCurrentStepNumber(genomeAnalysis)]_vars

\* the matched variants of all categories: the sum of the groups' totalCount
RECURSIVE SumTotalCount(_)
SumTotalCount(categoryGroups) ==
  IF categoryGroups = <<>> THEN 0
  ELSE categoryGroups[Len(categoryGroups)].totalCount
         + SumTotalCount(SubSeq(categoryGroups, 1, Len(categoryGroups) - 1))

\* C22: on the completion summary 'Total SNPs Identified' is the sum of the
\* totalCount of every category group of the overview.
C22_TotalSnpsIsSumOfTotalCount ==
  CompletedViewRendered =>
    TotalSnpsIdentified(genomeAnalysisResults.results)
      = SumTotalCount(OverviewResponse(server))

\* C23: every number-valued field of a parsed SNP and of a parsed analysis
\* summary is the number the response carried, 0 included, and is null only
\* when the response carried none.
C23_NumbersSurviveParsing ==
  probe.kind \in {"parseSnp", "parseSummary"} =>
    \A field \in DOMAIN probe.sent : probe.parsed[field] = probe.sent[field]

====
